---- MODULE Spec2Model ----
(***************************************************************************)
(* GeneralizedLinearRegressorCV.fit (src/src/glum/_glm_cv.py): hyper-      *)
(* parameter validation, the alpha grid, the fold x l1_ratio path jobs run *)
(* by joblib.Parallel, the reshape of their results, the selection of the  *)
(* winning (l1_ratio, alpha) and the final refit.                          *)
(*                                                                         *)
(* Numbers.  l1_ratio is held in tenths (0 is 0.0, 5 is 0.5, 10 is 1.0;    *)
(* -1 and 11 lie outside [0, 1]).  An alpha is held in units of the        *)
(* float64 grid; float32 can only hold the even ones.  A deviance is a     *)
(* natural number, or NaN (the field nan).                                 *)
(***************************************************************************)
EXTENDS Integers, Sequences, FiniteSets, TLC

\* ------------------------------------------------------------------ bounds
MaxL1 == 2
MaxAlphas == 2
NAlphas == 2
MaxFolds == 2
MaxNJobs == 2

\* ------------------------------------------------------------------ state
VARIABLES
    \* the estimator's parameters and the arguments of fit
    l1_ratio,        \* self.l1_ratio as a list (np.atleast_1d), in tenths
    l1_numeric,      \* whether np.asarray(self.l1_ratio) has a numeric dtype
    self_alphas,     \* self.alphas: <<>> is None, else the supplied list
    alphas_given,    \* self.alphas is not None
    X_dtype,         \* "float64" or "float32"
    P2,              \* self.P2: "identity", "psd" or "indefinite" (an array)
    check_input,     \* self.check_input
    sample_weight,   \* total sample weight of each fold's test block
    cv,              \* number of (train, test) pairs cv.split yields
    cv_needs_X,      \* the splitter counts its splits from the rows of X
                     \* (LeaveOneOut, LeavePOut) and cannot without X
    family_power,    \* _family_instance._power in tenths (15 is 1.5);
                     \* -1: the family has no such attribute
    link,            \* self.link: "auto", "identity" or "log"
    n_jobs,          \* the job-count limit handed to joblib.Parallel
    backend,         \* "loky" (processes) or "threading" (a parallel_backend context)
    data,            \* data[f]: the grid position where fold f's held-out deviance is lowest
    solver_fails,    \* the job whose solver raises (0: none)
    \* the coordinator (the thread running fit)
    pc,
    alphas,          \* the local list of one alpha grid per l1_ratio
    alpha_max_computed,
    splits_drawn,
    job,             \* job[j]: the state of the j-th delayed _fit_path call
    paths_data,      \* what joblib.Parallel hands back, one slot per job
    arrival,         \* the jobs in the order their results arrived
    avg_deviance,
    best,            \* <<best_l1, best_alpha>>
    \* attributes of the live estimator
    written,         \* names of the attributes this call has assigned so far
    alphas_,         \* an array: its shape and its entries (<<>> while unset)
    col_means_,      \* col_means_ / col_stds_: 0 unset, f the statistics of
                     \* fold f's training rows, FullData those of all rows
    intercept_path_,
    coef_path_,
    deviance_path_,
    train_indices_,
    l1_ratio_,
    alpha_,
    coef_

inputs == <<l1_ratio, l1_numeric, self_alphas, alphas_given, X_dtype, P2,
            check_input, sample_weight, cv, n_jobs, backend, data, solver_fails,
            cv_needs_X, family_power, link>>
coord == <<pc, alphas, alpha_max_computed, splits_drawn, job, paths_data,
           arrival, avg_deviance, best>>
attrs == <<written, alphas_, col_means_, intercept_path_, coef_path_,
           deviance_path_, train_indices_, l1_ratio_, alpha_, coef_>>
vars == <<inputs, coord, attrs>>

\* ------------------------------------------------------------------ helpers
Max(a, b) == IF a >= b THEN a ELSE b

RECURSIVE SumSeq(_)
SumSeq(s) == IF s = <<>> THEN 0 ELSE Head(s) + SumSeq(Tail(s))

RECURSIVE Pow2(_)
Pow2(k) == IF k = 0 THEN 1 ELSE 2 * Pow2(k - 1)

SeqsUpTo(S, n) == UNION {[1..k -> S] : k \in 1..n}

\* col_means_ / col_stds_ computed from all rows (0 stands for "not set",
\* 1..cv for a training fold)
FullData == cv + 1

\* ------------------------------------------------------------------ validation
\* a validation that forgets the upper end of [0, 1]
InvalidHyperparametersNoUpper ==
    \/ alphas_given /\ \E i \in 1..Len(self_alphas) : self_alphas[i] < 0
    \/ ~l1_numeric
    \/ \E i \in 1..Len(l1_ratio) : l1_ratio[i] < 0

\* _validate_hyperparameters: the conditions under which it raises ValueError.
\* The dtype test comes first in the `or` chain, so a non-numeric array is
\* never compared with 0 or 1.
InvalidHyperparameters ==
    \/ alphas_given /\ \E i \in 1..Len(self_alphas) : self_alphas[i] < 0
    \/ ~l1_numeric
    \/ \E i \in 1..Len(l1_ratio) : l1_ratio[i] < 0
    \/ \E i \in 1..Len(l1_ratio) : l1_ratio[i] > 10

\* ------------------------------------------------------------------ family and link
\* _set_up_for_fit: the link instance.  'auto' gives the identity link to the
\* normal family (which has no power attribute) and the log link to the
\* families with a power; a link given by name is taken as it is.
LinkInstance ==
    IF link = "auto"
    THEN (IF family_power = -1 THEN "identity" ELSE "log")
    ELSE link

\* lines 510-515 and 589-593: the assert on the family/link pair fails
AssertFamilyLinkFails == family_power = 15 /\ LinkInstance # "log"

\* ------------------------------------------------------------------ alpha grid
\* np.asarray(v, dtype=X.dtype): float64 keeps the value, float32 rounds it
\* to the nearest value float32 can hold.
AsDtype(v, dtype) == IF dtype = "float64" THEN v ELSE 2 * ((v + 1) \div 2)

AsArray(s, dtype) == [i \in 1..Len(s) |-> AsDtype(s[i], dtype)]

\* np.sort: ascending, keeping every element (insertion sort)
RECURSIVE Insert(_, _)
Insert(x, s) ==
    IF s = <<>> THEN <<x>>
    ELSE IF x <= Head(s) THEN <<x>> \o s
    ELSE <<Head(s)>> \o Insert(x, Tail(s))

RECURSIVE Sort(_)
Sort(s) == IF s = <<>> THEN <<>> ELSE Insert(Head(s), Sort(Tail(s)))

\* the ascending order of np.sort left as it is
NotReversed(s) == s

\* s[::-1]
Reversed(s) == [i \in 1..Len(s) |-> s[Len(s) + 1 - i]]

\* np.tile(row, (n, 1))
Tile(row, n) == [l \in 1..n |-> row]

\* fit, the else branch: the supplied alphas, cast, sorted descending, tiled
ExplicitAlphas ==
    Tile(Reversed(Sort(AsArray(self_alphas, X_dtype))), Len(l1_ratio))

\* _get_alpha_path: alpha_max is the largest gradient component divided by
\* max(l1_ratio, floor); the grid is geometric and descending, NAlphas long.
GetAlphaPath(l1) ==
    LET alpha_max == 1000 \div Max(l1, 1)
    IN  [k \in 1..NAlphas |-> alpha_max \div Pow2(k - 1)]

\* fit, the if branch: one generated grid per l1_ratio
GeneratedAlphas == [l \in 1..Len(l1_ratio) |-> GetAlphaPath(l1_ratio[l])]

\* ------------------------------------------------------------------ the jobs
n_l1 == Len(l1_ratio)

\* the generator of lines 682-700: for each split, for each l1_ratio
NJobsTotal == cv * n_l1
JobFold(j) == ((j - 1) \div n_l1) + 1
\* every call taking the first l1_ratio
JobL1First(j) == 1

JobL1(j) == ((j - 1) % n_l1) + 1

\* joblib runs the calls in the calling thread when the limit is 1, and in
\* threads of this process under the threading backend: then `self` is the
\* live estimator.  Worker processes get a pickled copy of it.
SharesEstimator == n_jobs = 1 \/ backend = "threading"

\* sample_weight[train_idx].sum() and sample_weight[test_idx].sum()
TestSum(f) == sample_weight[f]
TrainSum(f) == SumSeq(sample_weight) - sample_weight[f]

\* w /= w.sum() (lines 567 and 575): what the divided weights add up to, in
\* thousandths, for weights whose total is s.  A zero total leaves NaN.
NormalizedSum(s) ==
    [nan |-> s = 0, val |-> IF s = 0 THEN 0 ELSE (1000 * s) \div s]

\* setup_p2(P2, X, _stype, X.dtype, 1, l1): the L2 penalty carries the weight
\* (1 - l1_ratio), so at l1_ratio = 1.0 it is the zero matrix
SetupP2(p2, l1) == IF l1 = 10 THEN "psd" ELSE p2

\* is_pos_semidef
IsPosSemidef(p2) == p2 # "indefinite"

\* lines 637-645: the check of P2 inside the job
P2CheckRaises(l1) ==
    /\ check_input
    /\ P2 # "identity"
    /\ ~IsPosSemidef(SetupP2(P2, l1))

\* an exception caught and dropped inside the call
SolveOutcomeSwallowed(j) == "solved"

\* lines 627-660: the call raises at the check of P2, or in the solver, or
\* holds the solved path
SolveOutcome(j) ==
    IF P2CheckRaises(l1_ratio[JobL1(j)]) THEN "raised"
    ELSE IF solver_fails = j THEN "solver_raised"
    ELSE "solved"

\* _get_deviance on the coefficients of (fold f, l1_ratio l, alpha a),
\* unstandardized with the column statistics `stats`; nanw: the weights are
\* NaN (they were divided by a zero sum).  Fold f's data make the deviance
\* lowest at grid position data[f]; coefficients unstandardized with another
\* fold's statistics fit the held-out rows worse.
HeldOutDeviance(f, l, a, stats, nanw) ==
    LET n_a == Len(alphas[l])
        clean == IF (l - 1) * n_a + a = data[f] THEN 0 ELSE 1
        skew == IF stats = f THEN 0 ELSE 2
    IN  [nan |-> nanw, val |-> IF nanw THEN 0 ELSE clean + skew]

\* one entry of a job's coefficient (and intercept) path
PathCoef(f, l, a, stats) == [fold |-> f, l1 |-> l, alpha |-> a, stats |-> stats]

\* one entry of a job's deviance path: tagged with the job that computed it
\* and with the alpha value (entry a of the grid the job was called with)
\* whose coefficients it was evaluated on
PathDeviance(f, l, a, stats, nanw, this_alphas) ==
    [fold |-> f, l1 |-> l, alpha |-> a, stats |-> stats,
     dev |-> HeldOutDeviance(f, l, a, stats, nanw), at |-> this_alphas[a]]

\* every call handed the first row of the grids
JobAlphasFirstRow(j) == alphas[1]

\* zip(l1_ratio, alphas), lines 690 and 699: the call for the l-th l1_ratio
\* is handed the l-th row of the grids
JobAlphas(j) == alphas[JobL1(j)]

\* the tuple _fit_path returns (line 680)
FitPathResult(j, stats, nanw) ==
    LET f == JobFold(j)
        l == JobL1(j)
        n_a == Len(JobAlphas(j))
    IN  [intercept_path |-> [a \in 1..n_a |-> PathCoef(f, l, a, stats)],
         coef_path |-> [a \in 1..n_a |-> PathCoef(f, l, a, stats)],
         deviance_path |-> [a \in 1..n_a |->
                               PathDeviance(f, l, a, stats, nanw, JobAlphas(j))],
         train_idx |-> f]

NewJob == [st |-> "pending", own |-> 0, nanw |-> FALSE]

Active(j) == job[j].st \in {"dispatched", "standardized", "solved"}

\* results kept in the order they arrive
StoreByArrival(pd, j, r) == [pd EXCEPT ![Len(arrival) + 1] = <<r>>]

\* joblib.Parallel keeps its output in submission order: the result of the
\* j-th call goes to slot j whenever it arrives
StoreResult(pd, j, r) == [pd EXCEPT ![j] = <<r>>]

\* a return as soon as every call has been started
ParallelAllStarted == \A j \in 1..NJobsTotal : job[j].st # "pending"

\* line 706, cv.get_n_splits() called without arguments: a splitter that
\* counts its splits from X raises
GetNSplitsRaises == cv_needs_X

\* the Parallel call returns once every call has returned
ParallelDone == \A j \in 1..NJobsTotal : job[j].st = "done"

\* ------------------------------------------------------------------ collection
RECURSIVE Flatten(_)
Flatten(ss) == IF ss = <<>> THEN <<>> ELSE Head(ss) \o Flatten(Tail(ss))

\* a numpy array: its shape and its entries in row-major order
Array1(row) == [shape |-> <<Len(row)>>, data |-> row]

\* np.asarray(rows), the rows equally long
Array2(rows) == [shape |-> <<Len(rows), Len(rows[1])>>, data |-> Flatten(rows)]

\* arr[i] of a 1-d array and arr[i, j] of a 2-d array (counted from 1)
Index1(arr, i) == arr.data[i]
Index2(arr, i, j) == arr.data[(i - 1) * arr.shape[2] + j]

\* the grids kept as a 2-d array whatever the number of l1_ratios
StoredAlphas2d(al) == Array2(al)

\* lines 529-532: alphas[0] when there is one l1_ratio, else np.asarray(alphas)
StoredAlphas(al) == IF Len(al) = 1 THEN Array1(al[1]) ELSE Array2(al)

\* np.reshape(flat, (n_f, n_l, n_a)): row-major
Reshape3(flat, n_f, n_l, n_a) ==
    [f \in 1..n_f |-> [l \in 1..n_l |-> [a \in 1..n_a |->
        flat[((f - 1) * n_l + (l - 1)) * n_a + a]]]]

\* [elmt[k] for elmt in paths_data], for each of the three paths
Column(pd, k) ==
    [j \in 1..Len(pd) |->
        CASE k = 0 -> pd[j][1].intercept_path
          [] k = 1 -> pd[j][1].coef_path
          [] OTHER -> pd[j][1].deviance_path]

\* ------------------------------------------------------------------ selection
\* deviance_path_.mean(axis=0) at one grid position.  val is the sum over
\* the folds, that is the mean times the number of folds, which keeps it an
\* integer and leaves every comparison between positions as it is; NaN in any
\* fold makes the mean NaN.
MeanDeviance(devs) ==
    [nan |-> \E f \in 1..Len(devs) : devs[f].nan,
     val |-> SumSeq([f \in 1..Len(devs) |-> devs[f].val])]

\* a scan that also replaces the current best by an equal value
ReplacesOrEqual(x, y) == ~y.nan /\ (x.nan \/ x.val <= y.val)

\* np.argmin's scan replaces the current best by a strictly smaller value,
\* or by the first NaN it meets
Replaces(x, y) == ~y.nan /\ (x.nan \/ x.val < y.val)

RECURSIVE ArgMinFrom(_, _, _)
ArgMinFrom(flat, i, b) ==
    IF i > Len(flat) THEN b
    ELSE ArgMinFrom(flat, i + 1, IF Replaces(flat[i], flat[b]) THEN i ELSE b)

\* np.argmin over the flattened array (positions counted from 1)
ArgMin(flat) == ArgMinFrom(flat, 2, 1)

\* np.unravel_index(k, (n_l, n_a)) (positions counted from 1)
UnravelIndex(k, n_a) == <<((k - 1) \div n_a) + 1, ((k - 1) % n_a) + 1>>

\* ------------------------------------------------------------------ initial states
L1Values == {-1, 0, 5, 10, 11}
AlphaValues == {-1, 1, 2, 3}

\* the l1_ratio settings the data, scheduling and error cases run with
L1Canon == {<<5>>, <<10, 0>>}

Ones(k) == [f \in 1..k |-> 1]

InitInputs(l1, num, given, al, dt, p2, ci, sw, k, nj, be, d, sf) ==
    /\ l1_ratio = l1
    /\ l1_numeric = num
    /\ alphas_given = given
    /\ self_alphas = al
    /\ X_dtype = dt
    /\ P2 = p2
    /\ check_input = ci
    /\ sample_weight = sw
    /\ cv = k
    /\ n_jobs = nj
    /\ backend = be
    /\ data = d
    /\ solver_fails = sf

\* hyperparameters and alpha grids of every kind, on two folds, one job at a time
InitHyperparameters ==
    \E l1 \in SeqsUpTo(L1Values, MaxL1), num \in BOOLEAN,
       al \in {<<>>} \cup SeqsUpTo(AlphaValues, MaxAlphas),
       dt \in {"float64", "float32"} :
        InitInputs(l1, num, al # <<>>, al, dt, "identity", TRUE, Ones(2), 2,
                   1, "loky", Ones(2), 0)

\* every data set, one job at a time
InitData ==
    \E l1 \in L1Canon, k \in 2..MaxFolds :
        \E d \in [1..k -> 1..(Len(l1) * NAlphas)] :
            InitInputs(l1, TRUE, FALSE, <<>>, "float64", "identity", TRUE,
                       Ones(k), k, 1, "loky", d, 0)

\* every job-count limit and both backends, on data whose folds agree on the
\* best grid position, the first or the last
InitScheduling ==
    \E l1 \in L1Canon, k \in 2..MaxFolds, nj \in 2..MaxNJobs,
       be \in {"loky", "threading"} :
        \E p \in {1, Len(l1) * NAlphas} :
            InitInputs(l1, TRUE, FALSE, <<>>, "float64", "identity", TRUE,
                       Ones(k), k, nj, be, [f \in 1..k |-> p], 0)

\* penalty matrices of every kind, checked or not, in worker processes
InitPenalty ==
    \E l1 \in L1Canon, k \in 2..MaxFolds, nj \in 1..MaxNJobs,
       p2 \in {"identity", "psd", "indefinite"}, ci \in BOOLEAN :
        InitInputs(l1, TRUE, FALSE, <<>>, "float64", p2, ci, Ones(k), k, nj,
                   "loky", Ones(k), 0)

\* sample weights of every kind: non-negative with a positive total (fit's
\* set-up divides them by their total), so a fold's block may weigh nothing
InitWeights ==
    \E l1 \in L1Canon, k \in 2..MaxFolds :
        \E sw \in [1..k -> {0, 1}] :
            /\ SumSeq(sw) > 0
            /\ InitInputs(l1, TRUE, FALSE, <<>>, "float64", "identity", TRUE,
                          sw, k, 1, "loky", Ones(k), 0)

\* a solver that raises in one of the jobs
InitSolverFails ==
    \E l1 \in L1Canon, k \in 2..MaxFolds, nj \in 1..MaxNJobs,
       be \in {"loky", "threading"} :
        \E sf \in 1..(k * Len(l1)) :
            /\ nj = 1 => be = "loky"
            /\ InitInputs(l1, TRUE, FALSE, <<>>, "float64", "identity", TRUE,
                          Ones(k), k, nj, be, Ones(k), sf)

InitEnvironment(nx, fp, lk) ==
    /\ cv_needs_X = nx
    /\ family_power = fp
    /\ link = lk

\* families without a power attribute, with power 1.5 and with power 2, and
\* the link left to 'auto' or given by name
InitFamilyLink ==
    \E l1 \in L1Canon, fp \in {-1, 15, 20}, lk \in {"auto", "identity", "log"} :
        /\ InitInputs(l1, TRUE, FALSE, <<>>, "float64", "identity", TRUE,
                      Ones(2), 2, 1, "loky", Ones(2), 0)
        /\ InitEnvironment(FALSE, fp, lk)

\* a splitter that counts its splits from the rows of X
InitSplitter ==
    \E l1 \in L1Canon, k \in 2..MaxFolds :
        /\ InitInputs(l1, TRUE, FALSE, <<>>, "float64", "identity", TRUE,
                      Ones(k), k, 1, "loky", Ones(k), 0)
        /\ InitEnvironment(TRUE, -1, "auto")

\* the cases above run with the normal family, the link left to 'auto' and a
\* splitter that knows its number of splits (KFold, a list of index pairs)
InitCases ==
    \/ /\ \/ InitHyperparameters
          \/ InitData
          \/ InitScheduling
          \/ InitPenalty
          \/ InitWeights
          \/ InitSolverFails
       /\ InitEnvironment(FALSE, -1, "auto")
    \/ InitFamilyLink
    \/ InitSplitter

Init ==
    /\ InitCases
    /\ pc = "start"
    /\ alphas = <<>>
    /\ alpha_max_computed = FALSE
    /\ splits_drawn = FALSE
    /\ job = <<>>
    /\ paths_data = <<>>
    /\ arrival = <<>>
    /\ avg_deviance = <<>>
    /\ best = <<>>
    /\ written = {}
    /\ alphas_ = <<>>
    /\ col_means_ = 0
    /\ intercept_path_ = <<>>
    /\ coef_path_ = <<>>
    /\ deviance_path_ = <<>>
    /\ train_indices_ = <<>>
    /\ l1_ratio_ = 0
    /\ alpha_ = 0
    /\ coef_ = <<>>

\* ------------------------------------------------------------------ fit
\* line 489
ValidateHyperparameters ==
    /\ pc = "start"
    /\ pc' = IF InvalidHyperparameters THEN "raised" ELSE "set_up"
    /\ UNCHANGED <<inputs, alphas, alpha_max_computed, splits_drawn, job,
                   paths_data, arrival, avg_deviance, best, attrs>>

\* lines 491-515: the arguments are converted and checked, the family and
\* link instances are set up and asserted on
SetUpAndCheckFitArgs ==
    /\ pc = "set_up"
    /\ pc' = IF AssertFamilyLinkFails THEN "assertion_error" ELSE "alphas"
    /\ UNCHANGED <<inputs, alphas, alpha_max_computed, splits_drawn, job,
                   paths_data, arrival, avg_deviance, best, attrs>>

\* lines 517-532
ComputeAlphas ==
    /\ pc = "alphas"
    /\ alphas' = IF alphas_given THEN ExplicitAlphas ELSE GeneratedAlphas
    /\ alpha_max_computed' = ~alphas_given
    /\ alphas_' = StoredAlphas(alphas')
    /\ written' = written \cup {"alphas_"}
    /\ pc' = "jobs"
    /\ UNCHANGED <<inputs, splits_drawn, job, paths_data, arrival,
                   avg_deviance, best, col_means_, intercept_path_, coef_path_, deviance_path_,
                   train_indices_, l1_ratio_, alpha_, coef_>>

\* lines 534-545 and 682-702: the calls are built and handed to joblib.Parallel
BuildJobs ==
    /\ pc = "jobs"
    /\ job' = [j \in 1..NJobsTotal |-> NewJob]
    /\ paths_data' = [j \in 1..NJobsTotal |-> <<>>]
    /\ pc' = "parallel"
    /\ UNCHANGED <<inputs, alphas, alpha_max_computed, splits_drawn, arrival,
                   avg_deviance, best, attrs>>

\* joblib starts the calls in the order of the generator, at most n_jobs at
\* a time; the generator draws the next split from cv.split as it goes
Dispatch(j) ==
    /\ pc = "parallel"
    /\ job[j].st = "pending"
    /\ \A i \in 1..(j - 1) : job[i].st # "pending"
    /\ Cardinality({i \in 1..NJobsTotal : Active(i)}) < n_jobs
    /\ job' = [job EXCEPT ![j].st = "dispatched"]
    /\ splits_drawn' = TRUE
    /\ UNCHANGED <<inputs, pc, alphas, alpha_max_computed, paths_data,
                   arrival, avg_deviance, best, attrs>>

\* _fit_path, lines 562-621: the fold's rows and weights, the weights divided
\* by their sums, the assert on the family/link pair, the penalties, and
\* standardize with its results assigned to self.col_means_ and
\* self.col_stds_
JobStandardize(j) ==
    LET f == JobFold(j) IN
    /\ pc = "parallel"
    /\ job[j].st = "dispatched"
    /\ IF AssertFamilyLinkFails
       THEN /\ job' = [job EXCEPT ![j].st = "assertion_error"]
            /\ pc' = "assertion_error"
            /\ UNCHANGED <<col_means_, written>>
       ELSE /\ job' = [job EXCEPT ![j].st = "standardized",
                                  ![j].nanw = (NormalizedSum(TrainSum(f)).nan
                                                  \/ NormalizedSum(TestSum(f)).nan),
                                  ![j].own = IF SharesEstimator THEN 0 ELSE f]
            /\ col_means_' = IF SharesEstimator THEN f ELSE col_means_
            /\ written' = IF SharesEstimator
                          THEN written \cup {"col_means_", "col_stds_"}
                          ELSE written
            /\ pc' = pc
    /\ UNCHANGED <<inputs, alphas, alpha_max_computed, splits_drawn,
                   paths_data, arrival, avg_deviance, best, alphas_, intercept_path_,
                   coef_path_, deviance_path_, train_indices_, l1_ratio_,
                   alpha_, coef_>>

\* self.col_means_ / self.col_stds_ as job j reads them
ReadStats(j) == IF SharesEstimator THEN col_means_ ELSE job[j].own

\* _fit_path, lines 627-660: the start coefficients from self.col_means_ and
\* self.col_stds_, the check of P2, then the solver along the alpha path.
\* An exception in the call makes the Parallel call, and so fit, raise.
JobSolvePath(j) ==
    /\ pc = "parallel"
    /\ job[j].st = "standardized"
    /\ job' = [job EXCEPT ![j].st = SolveOutcome(j)]
    /\ pc' = IF SolveOutcome(j) = "solved" THEN pc ELSE "raised"
    /\ UNCHANGED <<inputs, alphas, alpha_max_computed, splits_drawn,
                   paths_data, arrival, avg_deviance, best, attrs>>

\* _fit_path, lines 662-680: unstandardize with self.col_means_ and
\* self.col_stds_, the held-out deviances, and the return
JobReturn(j) ==
    /\ pc = "parallel"
    /\ job[j].st = "solved"
    /\ job' = [job EXCEPT ![j].st = "done"]
    /\ paths_data' = StoreResult(paths_data, j,
                                 FitPathResult(j, ReadStats(j), job[j].nanw))
    /\ arrival' = Append(arrival, j)
    /\ UNCHANGED <<inputs, pc, alphas, alpha_max_computed, splits_drawn,
                   avg_deviance, best, attrs>>

\* line 702: the Parallel call returns
ParallelReturn ==
    /\ pc = "parallel"
    /\ ParallelDone
    /\ pc' = "reshape"
    /\ UNCHANGED <<inputs, alphas, alpha_max_computed, splits_drawn, job,
                   paths_data, arrival, avg_deviance, best, attrs>>

\* lines 704-719: the statement raises when cv.get_n_splits() does, and
\* np.reshape raises when the sizes do not match
Collect ==
    LET n_a == Len(alphas[1])
        size == cv * n_l1 * n_a
        ok == \A k \in 0..2 : Len(Flatten(Column(paths_data, k))) = size
    IN
    /\ pc = "reshape"
    /\ IF ~GetNSplitsRaises /\ ok
       THEN /\ intercept_path_' =
                   Reshape3(Flatten(Column(paths_data, 0)), cv, n_l1, n_a)
            /\ coef_path_' =
                   Reshape3(Flatten(Column(paths_data, 1)), cv, n_l1, n_a)
            /\ deviance_path_' =
                   Reshape3(Flatten(Column(paths_data, 2)), cv, n_l1, n_a)
            /\ train_indices_' =
                   [j \in 1..Len(paths_data) |-> paths_data[j][1].train_idx]
            /\ written' = written \cup {"intercept_path_", "coef_path_",
                                        "deviance_path_", "train_indices_"}
            /\ pc' = "select"
       ELSE /\ pc' = "raised"
            /\ UNCHANGED <<intercept_path_, coef_path_, deviance_path_,
                           train_indices_, written>>
    /\ UNCHANGED <<inputs, alphas, alpha_max_computed, splits_drawn, job,
                   paths_data, arrival, avg_deviance, best, alphas_, col_means_,
                   l1_ratio_, alpha_, coef_>>

\* lines 721-732
Select ==
    LET n_a == Len(alphas[1])
        avg == [l \in 1..n_l1 |-> [a \in 1..n_a |->
                   MeanDeviance([f \in 1..cv |-> deviance_path_[f][l][a].dev])]]
        b == UnravelIndex(ArgMin(Flatten(avg)), n_a)
    IN
    /\ pc = "select"
    /\ avg_deviance' = avg
    /\ best' = b
    /\ l1_ratio_' = l1_ratio[b[1]]
    /\ alpha_' = IF n_l1 > 1 THEN Index2(alphas_, b[1], b[2])
                            ELSE Index1(alphas_, b[2])
    /\ written' = written \cup {"l1_ratio_", "alpha_"}
    /\ pc' = "refit"
    /\ UNCHANGED <<inputs, alphas, alpha_max_computed, splits_drawn, job,
                   paths_data, arrival, alphas_, col_means_, intercept_path_,
                   coef_path_, deviance_path_, train_indices_, coef_>>

\* a refit that leaves the statistics as the estimator holds them
RefitStatisticsHeld == col_means_

\* lines 738-757: standardize is called on X and sample_weight, all rows
RefitStatistics == FullData

\* lines 734-757: the penalties at the winner and standardize on all rows
RefitStandardize ==
    /\ pc = "refit"
    /\ col_means_' = RefitStatistics
    /\ written' = written \cup {"col_means_", "col_stds_"}
    /\ pc' = "solve"
    /\ UNCHANGED <<inputs, alphas, alpha_max_computed, splits_drawn, job,
                   paths_data, arrival, avg_deviance, best, alphas_, intercept_path_,
                   coef_path_, deviance_path_, train_indices_, l1_ratio_,
                   alpha_, coef_>>

\* lines 759-787: the solve on all rows and unstandardize
RefitSolve ==
    /\ pc = "solve"
    /\ coef_' = <<[l1 |-> l1_ratio_, alpha |-> alpha_, stats |-> col_means_]>>
    /\ written' = written \cup {"intercept_", "coef_", "covariance_matrix_"}
    /\ pc' = "done"
    /\ UNCHANGED <<inputs, alphas, alpha_max_computed, splits_drawn, job,
                   paths_data, arrival, avg_deviance, best, alphas_, col_means_,
                   intercept_path_, coef_path_, deviance_path_,
                   train_indices_, l1_ratio_, alpha_>>

Next ==
    \/ ValidateHyperparameters
    \/ SetUpAndCheckFitArgs
    \/ ComputeAlphas
    \/ BuildJobs
    \/ \E j \in 1..Len(job) : Dispatch(j)
    \/ \E j \in 1..Len(job) : JobStandardize(j)
    \/ \E j \in 1..Len(job) : JobSolvePath(j)
    \/ \E j \in 1..Len(job) : JobReturn(j)
    \/ ParallelReturn
    \/ Collect
    \/ Select
    \/ RefitStandardize
    \/ RefitSolve

Spec == Init /\ [][Next]_vars

\* ------------------------------------------------------------------ claims
AfterCollect == pc \in {"select", "refit", "solve", "done"}
AfterSelect == pc \in {"refit", "solve", "done"}

\* the fold-averaged deviance at (l, a), read off deviance_path_
SurfaceAt(l, a) ==
    [nan |-> \E f \in 1..cv : deviance_path_[f][l][a].dev.nan,
     val |-> SumSeq([f \in 1..cv |-> deviance_path_[f][l][a].dev.val])]

GridPositions == {<<l, a>> : l \in 1..n_l1, a \in 1..Len(alphas[1])}

\* p is a position of the minimum of the surface (numpy's minimum of an
\* array holding NaN is NaN)
IsMinimumAt(p) ==
    IF \E q \in GridPositions : SurfaceAt(q[1], q[2]).nan
    THEN SurfaceAt(p[1], p[2]).nan
    ELSE \A q \in GridPositions :
            SurfaceAt(p[1], p[2]).val <= SurfaceAt(q[1], q[2]).val

RowMajorBefore(q, p) == q[1] < p[1] \/ (q[1] = p[1] /\ q[2] < p[2])

\* C1: after selection, (l1_ratio_, alpha_) is the pair at a position of the
\* minimum of the fold-averaged deviance surface, and no position before it
\* in row-major order (l1_ratio index, then alpha index) holds the minimum.
C1_SelectsFirstMinimum ==
    AfterSelect =>
        /\ best \in GridPositions
        /\ l1_ratio_ = l1_ratio[best[1]]
        /\ alpha_ = alphas[best[1]][best[2]]
        /\ IsMinimumAt(best)
        /\ \A q \in GridPositions : RowMajorBefore(q, best) => ~IsMinimumAt(q)

\* C1 witness: a finished fit whose surface has its minimum at several
\* positions, the winner not in the first row
C1_Witness ==
    /\ pc = "done"
    /\ best[1] > 1
    /\ \E q \in GridPositions : q # best /\ IsMinimumAt(q)

\* C2: once the paths are assembled, the entry at [f, l, a] of each of
\* deviance_path_, coef_path_ and intercept_path_ is the one that the job of
\* (fold f, l1_ratio l) computed at alpha a.
C2_ReassembledByIndex ==
    AfterCollect =>
        \A f \in 1..cv, l \in 1..n_l1, a \in 1..Len(alphas[1]) :
            /\ deviance_path_[f][l][a].fold = f
            /\ deviance_path_[f][l][a].l1 = l
            /\ deviance_path_[f][l][a].alpha = a
            /\ coef_path_[f][l][a].fold = f
            /\ coef_path_[f][l][a].l1 = l
            /\ coef_path_[f][l][a].alpha = a
            /\ intercept_path_[f][l][a] = coef_path_[f][l][a]
            /\ train_indices_[(f - 1) * n_l1 + l] = f

\* C2 witness: the paths are assembled from results that arrived out of the
\* order of submission
C2_Witness ==
    /\ AfterCollect
    /\ \E i \in 1..Len(arrival) : \E k \in 1..Len(arrival) :
            i < k /\ arrival[i] > arrival[k]

\* C3: while the path jobs run, no job writes an attribute of the live
\* estimator: its column statistics stay unset and nothing but alphas_,
\* which fit assigned before the jobs, has been written.
C3_JobsWriteNothingShared ==
    pc = "parallel" => (col_means_ = 0 /\ written \subseteq {"alphas_"})

\* the attributes that hold the results of the jobs, of the selection and of
\* the refit
ResultAttributes ==
    {"intercept_path_", "coef_path_", "deviance_path_", "train_indices_",
     "l1_ratio_", "alpha_", "coef_", "intercept_"}

\* job j raises when it runs: at its check of P2, or in its solver
RaisesWhenRun(j) ==
    \/ check_input /\ P2 = "indefinite" /\ l1_ratio[JobL1(j)] # 10
    \/ solver_fails = j

\* C4: if a path job raises, fit raises: no result attribute is assigned and
\* the results of the other jobs are neither reshaped nor selected from.
C4_NoPartialResult ==
    /\ (\E j \in 1..Len(job) : job[j].st \in {"raised", "solver_raised"})
            => pc = "raised"
    /\ (~InvalidHyperparameters /\ \E j \in 1..NJobsTotal : RaisesWhenRun(j))
            => /\ written \cap ResultAttributes = {}
               /\ pc \notin {"reshape", "select", "refit", "solve", "done"}
               /\ avg_deviance = <<>> /\ best = <<>> /\ coef_ = <<>>

\* C4 witness: fit has raised because one job raised after another job had
\* returned its result
C4_Witness ==
    /\ pc = "raised"
    /\ \E j \in 1..Len(job) : job[j].st \in {"raised", "solver_raised"}
    /\ \E j \in 1..Len(job) : job[j].st = "done"
    /\ written \cap ResultAttributes = {}

\* C5: the reshape, the averaged deviance, the choice of the winner and the
\* solve on all rows happen only when every one of the n_folds x n_l1_ratios
\* jobs has returned.
C5_BarrierBeforeSelection ==
    (pc \in {"reshape", "select", "refit", "solve", "done"}
        \/ avg_deviance # <<>> \/ best # <<>> \/ coef_ # <<>>)
    => /\ Len(job) = cv * n_l1
       /\ \A j \in 1..Len(job) : job[j].st = "done"
       /\ \A j \in 1..Len(job) : paths_data[j] # <<>>

\* C5 witness: the winner is chosen after jobs that ran two at a time
C5_Witness ==
    /\ pc = "refit"
    /\ n_jobs > 1
    /\ best # <<>>
    /\ \A j \in 1..Len(job) : job[j].st = "done"

\* C6: with an indefinite P2 and check_input true, no job ever runs its
\* solver: fit raises before any solver iteration.
C6_RejectedBeforeAnySolve ==
    (check_input /\ P2 = "indefinite")
        => \A j \in 1..Len(job) :
               job[j].st \notin {"solved", "done", "solver_raised"}

\* the hyperparameters the claim calls invalid: a non-numeric l1_ratio, an
\* l1_ratio outside [0, 1], a negative explicit alpha
C7_Invalid ==
    \/ ~l1_numeric
    \/ \E i \in 1..Len(l1_ratio) : l1_ratio[i] < 0 \/ l1_ratio[i] > 10
    \/ alphas_given /\ \E i \in 1..Len(self_alphas) : self_alphas[i] < 0

\* C7: with invalid hyperparameters fit does nothing but raise: no alpha path
\* is computed, no split is drawn, no job exists and no attribute is written.
C7_InvalidRaisesFirst ==
    C7_Invalid =>
        /\ pc \in {"start", "raised"}
        /\ alphas = <<>> /\ ~alpha_max_computed
        /\ ~splits_drawn
        /\ job = <<>>
        /\ written = {}

\* C7 witness: fit has raised on an l1_ratio above 1 that is otherwise valid
C7_Witness ==
    /\ pc = "raised"
    /\ l1_numeric
    /\ \E i \in 1..Len(l1_ratio) : l1_ratio[i] > 10
    /\ \A i \in 1..Len(l1_ratio) : l1_ratio[i] >= 0
    /\ ~(alphas_given /\ \E i \in 1..Len(self_alphas) : self_alphas[i] < 0)

\* C8: when a fold's training or test rows have zero total weight, fit raises
\* before the jobs: no job divides weights by a zero sum and no job returns
\* a deviance computed from such weights.
C8_ZeroWeightFoldRejected ==
    (\E f \in 1..cv : TrainSum(f) = 0 \/ TestSum(f) = 0)
        => /\ \A j \in 1..Len(job) : ~job[j].nanw
           /\ \A j \in 1..Len(paths_data) :
                  paths_data[j] # <<>> =>
                      \A a \in 1..Len(paths_data[j][1].deviance_path) :
                          ~paths_data[j][1].deviance_path[a].dev.nan

Count(s, v) == Cardinality({i \in 1..Len(s) : s[i] = v})
SameMultiset(s, t) ==
    /\ Len(s) = Len(t)
    /\ \A i \in 1..Len(s) : Count(s, s[i]) = Count(t, s[i])
Descending(s) == \A i \in 1..(Len(s) - 1) : s[i] >= s[i + 1]

\* alphas_ holds the one grid when there is one l1_ratio, else one row per
\* l1_ratio
AlphasStored ==
    alphas_ = IF n_l1 = 1 THEN Array1(alphas[1]) ELSE Array2(alphas)

\* C9 as amended: with explicit alphas, the grid of every l1_ratio is the
\* supplied list converted to the dtype of X and sorted in descending order
\* (as many values as supplied, none generated, alpha_max not computed), the
\* same for every l1_ratio, and alphas_ stores it.
C9_ExplicitGridCastSorted ==
    (alphas_given /\ "alphas_" \in written) =>
        /\ ~alpha_max_computed
        /\ Len(alphas) = n_l1
        /\ \A l \in 1..n_l1 :
               /\ Descending(alphas[l])
               /\ SameMultiset(alphas[l], AsArray(self_alphas, X_dtype))
               /\ alphas[l] = alphas[1]
        /\ AlphasStored

\* C9 as claimed: the grid holds exactly the supplied values
C9_ExplicitGridExact ==
    (alphas_given /\ "alphas_" \in written) =>
        /\ ~alpha_max_computed
        /\ Len(alphas) = n_l1
        /\ \A l \in 1..n_l1 :
               /\ Descending(alphas[l])
               /\ SameMultiset(alphas[l], self_alphas)
               /\ alphas[l] = alphas[1]
        /\ AlphasStored

\* C9 witness: a finished fit on float32 data with two l1_ratios and
\* explicit alphas supplied in ascending order
C9_Witness ==
    /\ pc = "done"
    /\ alphas_given
    /\ X_dtype = "float32"
    /\ n_l1 = 2
    /\ Len(self_alphas) = 2
    /\ self_alphas[1] < self_alphas[2]

\* what fit selects when every job unstandardizes with its own fold's
\* statistics, as it does when the jobs run one at a time
OwnStatsSurface ==
    [l \in 1..n_l1 |-> [a \in 1..Len(alphas[1]) |->
        MeanDeviance([f \in 1..cv |->
            HeldOutDeviance(f, l, a, f, TrainSum(f) = 0 \/ TestSum(f) = 0)])]]
OwnStatsBest == UnravelIndex(ArgMin(Flatten(OwnStatsSurface)), Len(alphas[1]))

\* C10: the outcome of fit is a function of its inputs: whatever the job
\* limit, the backend and the scheduling, the winner is the one the same
\* inputs give one job at a time, and so are the final coefficients.
C10_Deterministic ==
    pc = "done" =>
        /\ best = OwnStatsBest
        /\ l1_ratio_ = l1_ratio[OwnStatsBest[1]]
        /\ alpha_ = alphas[OwnStatsBest[1]][OwnStatsBest[2]]
        /\ coef_ = <<[l1 |-> l1_ratio[OwnStatsBest[1]],
                      alpha |-> alphas[OwnStatsBest[1]][OwnStatsBest[2]],
                      stats |-> FullData]>>

\* C11: after a successful fit col_means_ and col_stds_ are the statistics of
\* all rows, never unset and never those of a training fold, and the final
\* coefficients are solved at the winning (l1_ratio_, alpha_) and
\* unstandardized with the statistics of all rows.
C11_RefitOnFullData ==
    pc = "done" =>
        /\ col_means_ = cv + 1
        /\ col_means_ \notin 0..cv
        /\ Len(coef_) = 1
        /\ coef_[1].stats = cv + 1
        /\ coef_[1].l1 = l1_ratio[best[1]]
        /\ coef_[1].alpha = alphas[best[1]][best[2]]
        /\ coef_[1].l1 = l1_ratio_
        /\ coef_[1].alpha = alpha_

\* C11 witness: a finished fit whose jobs ran as threads on the live
\* estimator and returned out of the order of submission
C11_Witness ==
    /\ pc = "done"
    /\ backend = "threading"
    /\ n_jobs > 1
    /\ \E i \in 1..Len(arrival) : \E k \in 1..Len(arrival) :
            i < k /\ arrival[i] > arrival[k]
    /\ col_means_ = FullData

\* C12: in every job that has divided its weights, the training weights add
\* up to 1 and the test weights add up to 1 (1000 thousandths), the same
\* when every weight is multiplied by a positive constant c, and no deviance
\* is computed from weights that are not numbers.
C12_WeightsRenormalized ==
    \A j \in 1..Len(job) :
        job[j].st \in {"standardized", "solved", "done"} =>
            /\ NormalizedSum(TrainSum(JobFold(j))) = [nan |-> FALSE, val |-> 1000]
            /\ NormalizedSum(TestSum(JobFold(j))) = [nan |-> FALSE, val |-> 1000]
            /\ \A c \in 1..3 :
                   /\ NormalizedSum(c * TrainSum(JobFold(j)))
                          = NormalizedSum(TrainSum(JobFold(j)))
                   /\ NormalizedSum(c * TestSum(JobFold(j)))
                          = NormalizedSum(TestSum(JobFold(j)))
            /\ ~job[j].nanw

\* the jobs that have returned a result for fold f and l1_ratio l
ReturnedFor(f, l) ==
    {j \in 1..Len(paths_data) :
        /\ paths_data[j] # <<>>
        /\ paths_data[j][1].train_idx = f
        /\ paths_data[j][1].coef_path[1].l1 = l}

\* C13: there are n_folds x n_l1_ratios jobs; no (fold, l1_ratio) pair is
\* run by two jobs, and once all jobs have returned every pair has been run
\* by exactly one job.
C13_JobsAreTheProduct ==
    job # <<>> =>
        /\ Len(job) = cv * Len(l1_ratio)
        /\ Len(paths_data) = cv * Len(l1_ratio)
        /\ \A f \in 1..cv, l \in 1..Len(l1_ratio) :
               Cardinality(ReturnedFor(f, l)) <= 1
        /\ pc \in {"reshape", "select", "refit", "solve", "done"} =>
               \A f \in 1..cv, l \in 1..Len(l1_ratio) :
                   Cardinality(ReturnedFor(f, l)) = 1

\* C13 witness: a finished fit over two folds and two l1_ratios
C13_Witness ==
    /\ pc = "done"
    /\ cv >= 2
    /\ Len(l1_ratio) = 2
    /\ Len(job) = 4
    /\ \A j \in 1..4 : paths_data[j] # <<>>

C15_JobReadsOwnStatistics ==
    SharesEstimator =>
        \A j \in 1..Len(paths_data) :
            paths_data[j] # <<>> =>
                \A a \in 1..Len(paths_data[j][1].coef_path) :
                    /\ paths_data[j][1].coef_path[a].stats
                           = paths_data[j][1].train_idx
                    /\ paths_data[j][1].intercept_path[a].stats
                           = paths_data[j][1].train_idx

\* C16: in the assembled deviance_path_, the entry of every fold at (l, a)
\* was evaluated at the alpha value alphas[l][a] of the grid computed for the
\* l-th l1_ratio, so the entries averaged over the folds at (l, a) all
\* belong to one and the same alpha value, the one alphas_ reports there.
C16_AveragedAtOneAlpha ==
    AfterCollect =>
        \A l \in 1..Len(l1_ratio), a \in 1..Len(alphas[1]) :
            /\ \A f \in 1..cv : deviance_path_[f][l][a].at = alphas[l][a]
            /\ \A f \in 1..cv, g \in 1..cv :
                   deviance_path_[f][l][a].at = deviance_path_[g][l][a].at
            /\ alphas_.data[(l - 1) * Len(alphas[1]) + a] = alphas[l][a]

\* C16 witness: the paths are assembled for two l1_ratios whose generated
\* grids differ
C16_Witness ==
    /\ AfterCollect
    /\ ~alphas_given
    /\ Len(l1_ratio) = 2
    /\ alphas[1] # alphas[2]
    /\ cv >= 2

\* C17: whenever every job has returned and fit comes to reshape the
\* results, there are cv.get_n_splits() x len(l1_ratio) of them, each with
\* len(alphas[0]) deviances, and the reshape does not fail: fit does not
\* raise once every job has returned.
C17_ReshapeNeverFails ==
    (job # <<>> /\ \A j \in 1..Len(job) : job[j].st = "done") =>
        /\ Len(paths_data) = cv * Len(l1_ratio)
        /\ \A j \in 1..Len(paths_data) :
               Len(paths_data[j][1].deviance_path) = Len(alphas[1])
        /\ pc # "raised"

\* C18: the assertions on the family/link pair never fail, in fit or in a
\* job, for hyperparameters that pass validation: fit never ends in an
\* AssertionError.
C18_AssertionsNeverFail ==
    ~InvalidHyperparameters =>
        /\ pc # "assertion_error"
        /\ \A j \in 1..Len(job) : job[j].st # "assertion_error"
        /\ (family_power = 15 /\ pc \notin {"start", "set_up"})
               => LinkInstance = "log"

====
